---- MODULE Spec2Model ----
(***************************************************************************)
(* A model of the OpenBB widget backend: the widget registry and its       *)
(* discovery endpoint (src/registry.py, src/main.py), the stock_stats      *)
(* widget handler with its upstream data client                            *)
(* (src/widgets/stock_stats.py, src/vianexus/dataset.py) and the           *)
(* stock_chart widget handler (src/widgets/stock_chart.py).                *)
(*                                                                         *)
(* Specifications: SpecRegistry (registration and discovery), SpecStats    *)
(* (one get_stock_stats invocation after another), SpecChart (the same for *)
(* get_stock_chart), SpecHandlers (both handlers), SpecFormat (the display *)
(* and list-building code applied to single inputs).                       *)
(***************************************************************************)
EXTENDS Integers, Sequences, FiniteSets, TLC

(***************************************************************************)
(* Bounds of the model.                                                    *)
(***************************************************************************)
\* number of register_widget calls in one behaviour
MaxRegs == 3

(***************************************************************************)
(* Python values.  A dict is a TLA+ function whose DOMAIN is the set of    *)
(* keys it holds; None is the string "None".                               *)
(***************************************************************************)
None == "None"

\* dict.get(key): the value, or None when the key is missing
DictGet(d, key) == IF key \in DOMAIN d THEN d[key] ELSE None

\* d[key] = value on a dict: the key is added or its value replaced
DictSet(d, key, value) ==
    [k \in DOMAIN d \cup {key} |-> IF k = key THEN value ELSE d[k]]

\* truth value of a str-or-None (the test `if endpoint:`)
Truthy(v) == v # None /\ v # ""

EmptyDict == [k \in {} |-> None]

\* no wrapper made yet; no operation has answered yet
NoWrapper == [kind |-> "none"]
NoResponse == [op |-> "none"]

\* quote_data = None, and "no record yet" for data
NoRecord == [kind |-> "none"]
\* the invocation has not ended; no upstream answer yet
NoResult == [status |-> 0]
NoAnswer == [net |-> "none"]

(***************************************************************************)
(* Widget descriptors handed to register_widget.  "name" stands for the    *)
(* descriptive content (name, description, params ...) and tells two       *)
(* descriptors of one identifier apart.                                    *)
(***************************************************************************)
EndpointNames == {"stock_stats", "stock_chart"}
ExplicitIds == {"stock_stats", "stats_compact"}
DisplayNames == {"Stock Statistics", "Stock Price Chart"}

\* every descriptor has a name; "endpoint" and "widgetId" may be missing
Descriptors ==
    { [k \in {"name"} \cup eKey \cup wKey |->
          IF k = "name" THEN n ELSE IF k = "endpoint" THEN e ELSE w] :
        n \in DisplayNames, e \in EndpointNames, w \in ExplicitIds,
        eKey \in {{}, {"endpoint"}}, wKey \in {{}, {"widgetId"}} }

(***************************************************************************)
(* Handlers: what a decorated function does when called.  A handler is a   *)
(* coroutine function (async def) or a plain function; like the widget     *)
(* handlers it returns a payload for a symbol it knows and raises for one  *)
(* it does not.                                                            *)
(***************************************************************************)
ArgLists == {"AAPL", "ZZZZ"}
Handlers == [isCoroutine : BOOLEAN]

\* the outcome of running the handler's body on args
HandlerBody(func, args) ==
    IF args = "ZZZZ"
    THEN <<"raise", "HTTPException">>
    ELSE <<"return", args>>

\* calling the handler itself: whether the callable is a coroutine function
\* (the caller must await it) and the outcome the caller ends with
CallHandler(func, args) ==
    [suspends |-> func.isCoroutine, outcome |-> HandlerBody(func, args)]

VARIABLES
    WIDGETS,        \* registry.WIDGETS (src/registry.py:12)
    main_WIDGETS,   \* main.WIDGETS (src/main.py:38)
    lastWrapper,    \* the wrapper returned by the latest register_widget call
    response,       \* what the latest operation returned to its caller
    \* history (not program state): what was passed to register_widget
    nregs,          \* number of register_widget calls so far
    latest,         \* per module and identifier: latest descriptor registered
    superseded,     \* <<module, identifier>>: a registration replaced another
    passed          \* identifiers of all descriptors passed, any module

registryVars ==
    <<WIDGETS, main_WIDGETS, lastWrapper, response, nregs, latest, superseded, passed>>

\* the stock_stats widget and its data client
VARIABLES
    pc,               \* where the invocation of get_stock_stats stands
    symbol,           \* query parameter symbol
    metrics_display,  \* query parameter metrics_display
    data,             \* response[0] of the primary fetch
    quote_data,       \* the quote record, or None
    result,           \* how the invocation ended: a payload or an HTTPException
    calls,            \* the upstream requests issued by the invocation, in order
    primary,          \* history: what the upstream answered to the primary fetch
    quote             \* history: what the upstream answered to the quote fetch

statsVars ==
    <<pc, symbol, metrics_display, data, quote_data, result, calls,
      primary, quote>>

\* the list-building code applied to one input
VARIABLES
    shown             \* the latest application: its input and what it gave

formatVars == <<shown>>

\* the stock_chart widget
VARIABLES
    chart_pc,         \* where the invocation of get_stock_chart stands
    chart_symbol,     \* query parameter symbol
    history,          \* what the upstream holds as history of the symbol
    chart_result,     \* how the invocation ended
    chart_calls       \* the upstream requests issued by the invocation

chartVars == <<chart_pc, chart_symbol, history, chart_result, chart_calls>>

vars == <<registryVars, statsVars, formatVars, chartVars>>

(***************************************************************************)
(* register_widget(widget_config)(func): src/registry.py:51-78, and the    *)
(* same code in src/main.py:53-79.                                         *)
(***************************************************************************)
\* a registry that keeps the first descriptor of an identifier
register_widget_first_wins(W, widget_config) ==
    LET endpoint == DictGet(widget_config, "endpoint")
    IN  IF Truthy(endpoint)
        THEN LET config == IF "widgetId" \notin DOMAIN widget_config
                           THEN DictSet(widget_config, "widgetId", endpoint)
                           ELSE widget_config
                 widget_id == config["widgetId"]
             IN  IF widget_id \in DOMAIN W THEN W
                 ELSE DictSet(W, widget_id, config)
        ELSE W

\* a registry keyed by the endpoint name whatever the widgetId
register_widget_by_endpoint(W, widget_config) ==
    LET endpoint == DictGet(widget_config, "endpoint")
    IN  IF Truthy(endpoint)
        THEN LET config == IF "widgetId" \notin DOMAIN widget_config
                           THEN DictSet(widget_config, "widgetId", endpoint)
                           ELSE widget_config
             IN  DictSet(W, endpoint, config)
        ELSE W

\* lines 62-71: the registry after the call
register_widget(W, widget_config) ==
    LET endpoint == DictGet(widget_config, "endpoint")
    IN  IF Truthy(endpoint)
        THEN LET config == IF "widgetId" \notin DOMAIN widget_config
                           THEN DictSet(widget_config, "widgetId", endpoint)
                           ELSE widget_config
                 widget_id == config["widgetId"]
             IN  DictSet(W, widget_id, config)
        ELSE W

\* a decorator that returns sync_wrapper for every function
decorator_always_sync(func) == [kind |-> "sync_wrapper", func |-> func]

\* lines 73-76: the wrapper the decorator returns
decorator(func) ==
    IF func.isCoroutine
    THEN [kind |-> "async_wrapper", func |-> func]
    ELSE [kind |-> "sync_wrapper", func |-> func]

\* lines 52-60: calling a wrapper.  async_wrapper is a coroutine function
\* whose body awaits func(*args): awaiting the value a plain function
\* returned raises TypeError.  sync_wrapper returns func(*args) as it is.
CallWrapper(wrapper, args) ==
    IF wrapper.kind = "async_wrapper"
    THEN [suspends |-> TRUE,
          outcome |->
              IF wrapper.func.isCoroutine
                 \/ HandlerBody(wrapper.func, args)[1] = "raise"
              THEN HandlerBody(wrapper.func, args)
              ELSE <<"raise", "TypeError">>]
    ELSE [suspends |-> FALSE, outcome |-> HandlerBody(wrapper.func, args)]

\* the identifier of a descriptor: the explicit widgetId, else the endpoint
\* name (None when it has neither)
IdOf(widget_config) ==
    IF "widgetId" \in DOMAIN widget_config
    THEN widget_config["widgetId"]
    ELSE DictGet(widget_config, "endpoint")

\* history of one call: a descriptor with an endpoint is a registration
\* made under its identifier
Registers(widget_config) == Truthy(DictGet(widget_config, "endpoint"))

Record(module, widget_config) ==
    IF Registers(widget_config)
    THEN [latest EXCEPT ![module] =
             DictSet(latest[module], IdOf(widget_config), widget_config)]
    ELSE latest

\* the call registers under an identifier that holds another descriptor
Supersedes(module, widget_config) ==
    /\ Registers(widget_config)
    /\ IdOf(widget_config) \in DOMAIN latest[module]
    /\ latest[module][IdOf(widget_config)] # widget_config

Replaced(module, widget_config) ==
    IF Supersedes(module, widget_config)
    THEN superseded \cup {<<module, IdOf(widget_config)>>}
    ELSE superseded

\* a widget module (src/widgets/*.py) registers through registry.py
RegisterViaRegistry ==
    /\ nregs < MaxRegs
    /\ \E widget_config \in Descriptors, func \in Handlers :
        /\ WIDGETS' = register_widget(WIDGETS, widget_config)
        /\ lastWrapper' = decorator(func)
        /\ response' = [op |-> "register_widget", module |-> "registry"]
        /\ latest' = Record("registry", widget_config)
        /\ superseded' = Replaced("registry", widget_config)
        /\ passed' = passed \cup ({IdOf(widget_config)} \ {None})
    /\ nregs' = nregs + 1
    /\ UNCHANGED <<main_WIDGETS, statsVars, formatVars, chartVars>>

\* main.py registers through its own register_widget into its own WIDGETS
RegisterViaMain ==
    /\ nregs < MaxRegs
    /\ \E widget_config \in Descriptors, func \in Handlers :
        /\ main_WIDGETS' = register_widget(main_WIDGETS, widget_config)
        /\ lastWrapper' = decorator(func)
        /\ response' = [op |-> "register_widget", module |-> "main"]
        /\ latest' = Record("main", widget_config)
        /\ superseded' = Replaced("main", widget_config)
        /\ passed' = passed \cup ({IdOf(widget_config)} \ {None})
    /\ nregs' = nregs + 1
    /\ UNCHANGED <<WIDGETS, statsVars, formatVars, chartVars>>

\* a request reaches the route the latest wrapper is bound to
InvokeWrapper ==
    /\ lastWrapper # NoWrapper
    /\ \E args \in ArgLists :
        response' = [op |-> "wrapper", args |-> args,
                     result |-> CallWrapper(lastWrapper, args)]
    /\ UNCHANGED <<WIDGETS, main_WIDGETS, lastWrapper, nregs, latest,
                   superseded, passed, statsVars, formatVars, chartVars>>

\* GET /widgets.json: src/main.py:91-99
get_widgets ==
    /\ response' = [op |-> "get_widgets", content |-> main_WIDGETS]
    /\ UNCHANGED <<WIDGETS, main_WIDGETS, lastWrapper, nregs, latest,
                   superseded, passed, statsVars, formatVars, chartVars>>

RegistryInit ==
    /\ WIDGETS = EmptyDict
    /\ main_WIDGETS = EmptyDict
    /\ lastWrapper = NoWrapper
    /\ response = NoResponse
    /\ nregs = 0
    /\ latest = [m \in {"registry", "main"} |-> EmptyDict]
    /\ superseded = {}
    /\ passed = {}

StatsInit ==
    /\ pc = "idle"
    /\ symbol = None
    /\ metrics_display = None
    /\ data = NoRecord
    /\ quote_data = NoRecord
    /\ result = NoResult
    /\ calls = <<>>
    /\ primary = NoAnswer
    /\ quote = NoAnswer

NoShown == [op |-> "none"]

FormatInit == shown = NoShown

ChartInit ==
    /\ chart_pc = "idle"
    /\ chart_symbol = None
    /\ history = NoAnswer
    /\ chart_result = NoResult
    /\ chart_calls = <<>>

Init == RegistryInit /\ StatsInit /\ FormatInit /\ ChartInit

RegistryNext ==
    \/ RegisterViaRegistry
    \/ RegisterViaMain
    \/ InvokeWrapper
    \/ get_widgets

SpecRegistry == Init /\ [][RegistryNext]_vars

(***************************************************************************)
(* JSON values of an upstream record: a number, a string or null.          *)
(***************************************************************************)
JNum(n) == [t |-> "num", v |-> n]
JStr(x) == [t |-> "str", v |-> x]
JNull == [t |-> "null"]

(***************************************************************************)
(* StockStatsData and VnxQuoteData: src/vianexus/dataset.py:8-61.  Each    *)
(* row is a field: its attribute name, its alias (the upstream key), its   *)
(* type and whether it is required.                                        *)
(***************************************************************************)
Row(attr, alias, type, required) ==
    [attr |-> attr, alias |-> alias, type |-> type, required |-> required]

StockStatsData ==
    { Row("week_52_change", "52weekChange", "float", TRUE),
      Row("week_52_high", "52weekHigh", "float", TRUE),
      Row("week_52_high_date", "52weekHighDate", "str", TRUE),
      Row("week_52_low", "52weekLow", "float", TRUE),
      Row("week_52_low_date", "52weekLowDate", "str", TRUE),
      Row("avg_30_day_volume", "avg30DayVolume", "int", TRUE),
      Row("beta", "beta", "float", TRUE),
      Row("date", "date", "str", TRUE),
      Row("day_200_moving_average", "day200MovingAverage", "float", TRUE),
      Row("day_50_moving_average", "day50MovingAverage", "float", TRUE),
      Row("eps_ttm", "epsTtm", "float", TRUE),
      Row("issuer_name", "issuerName", "str", TRUE),
      Row("mic", "mic", "str", TRUE),
      Row("pe_ratio_ttm", "peRatioTtm", "float", TRUE),
      Row("shares_outstanding", "sharesOutstanding", "int", TRUE),
      Row("symbol", "symbol", "str", TRUE),
      Row("ytd_change", "ytdChange", "float", TRUE),
      Row("id", "id", "str", TRUE),
      Row("key", "key", "str", TRUE),
      Row("subkey", "subkey", "str", TRUE),
      Row("updated", "updated", "float", TRUE) }

VnxQuoteData ==
    { Row("vnx_symbol", "vnxSymbol", "str", TRUE),
      Row("vnx_bid_size", "vnxBidSize", "int", TRUE),
      Row("vnx_bid_price", "vnxBidPrice", "float", TRUE),
      Row("vnx_ask_size", "vnxAskSize", "int", TRUE),
      Row("vnx_ask_price", "vnxAskPrice", "float", TRUE),
      Row("vnx_price", "vnxPrice", "float", TRUE),
      Row("vnx_last_sale_price", "vnxLastSalePrice", "float", TRUE),
      Row("vnx_last_sale_size", "vnxLastSaleSize", "int", TRUE),
      Row("vnx_low_price", "vnxLowPrice", "float", TRUE),
      Row("vnx_high_price", "vnxHighPrice", "float", TRUE),
      Row("vnx_open_price", "vnxOpenPrice", "float", TRUE),
      Row("vnx_close_price", "vnxClosePrice", "float", TRUE),
      Row("vnx_volume", "vnxVolume", "int", TRUE),
      Row("vnx_timestamp", "vnxTimestamp", "int", TRUE),
      Row("vnx_market_percent", "vnxMarketPercent", "float", TRUE),
      Row("vnx_high_time", "vnxHighTime", "int", TRUE),
      Row("vnx_low_time", "vnxLowTime", "int", TRUE),
      Row("vnx_price_type", "vnxPriceType", "str", TRUE),
      Row("market_volume", "MarketVolume", "int", FALSE) }

Aliases(schema) == { row.alias : row \in schema }

\* pydantic's check of one value against a field type: a number for float
\* and int, a string for str; null fits no required field
Fits(type, value) ==
    IF type = "str" THEN value.t = "str" ELSE value.t = "num"

\* cls(**item) succeeds: every required field is there with a fitting value
\* (an optional field may be missing or null)
Validates(schema, item) ==
    \A row \in schema :
        IF row.alias \in DOMAIN item
        THEN Fits(row.type, item[row.alias])
             \/ (~row.required /\ item[row.alias] = JNull)
        ELSE ~row.required

\* cls(**item): the model object, its values under the attribute names
\* (a missing optional field takes its default, None)
Construct(cls, schema, item) ==
    [kind |-> "model", cls |-> cls,
     attrs |-> [a \in { row.attr : row \in schema } |->
                  LET row == CHOOSE r \in schema : r.attr = a
                  IN  IF row.alias \in DOMAIN item THEN item[row.alias]
                      ELSE JNull]]

(***************************************************************************)
(* The upstream.  An answer to one HTTP GET: the transport fails           *)
(* (connection error, timeout) or a response arrives with a status and a   *)
(* body; a JSON body is an array of records or an object.                  *)
(***************************************************************************)
\* records with at most this many fields missing or null
MaxDefects == 1

Statuses == {200, 500}

\* an upstream record for AAPL: every field of the schema, but for those
\* in missing, and null for those in nulls.  Prices are whole dollars,
\* fractional changes are in units of 0.0001, updated is in milliseconds.
Item(schema, values, missing, nulls) ==
    [a \in Aliases(schema) \ missing |->
        IF a \in nulls THEN JNull
        ELSE IF a \in DOMAIN values THEN JNum(values[a])
        ELSE LET row == CHOOSE r \in schema : r.alias = a
             IN  IF row.type = "str" THEN JStr(a) ELSE JNum(1)]

\* the subsets of S with at most k elements
RECURSIVE SubsetsUpTo(_, _)
SubsetsUpTo(S, k) ==
    IF k = 0 THEN {{}}
    ELSE LET smaller == SubsetsUpTo(S, k - 1)
         IN  smaller \cup { D \cup {x} : D \in smaller, x \in S }

Defects(schema) ==
    UNION { { [missing |-> m, nulls |-> D \ m] : m \in SUBSET D } :
              D \in SubsetsUpTo(Aliases(schema), MaxDefects) }

\* no field, or one field, missing or null
OneDefect(schema) ==
    {[missing |-> {}, nulls |-> {}]}
    \cup {[missing |-> {a}, nulls |-> {}] : a \in Aliases(schema)}
    \cup {[missing |-> {}, nulls |-> {a}] : a \in Aliases(schema)}

StatsValues ==
    [sharesOutstanding : {0, 10000000}, avg30DayVolume : {0, 50000},
     updated : {100000}]

StatsItems ==
    { Item(StockStatsData, v, {}, {}) : v \in StatsValues }
    \cup { Item(StockStatsData,
               [sharesOutstanding |-> 10000000, avg30DayVolume |-> 50000,
                updated |-> 100000],
               d.missing, d.nulls) : d \in Defects(StockStatsData) }

QuoteValues ==
    [vnxPrice : {150}, vnxLowPrice : {0, 148}, vnxHighPrice : {0, 152},
     vnxBidPrice : {0, 149}, vnxAskPrice : {0, 151}, vnxVolume : {0, 60000}]

QuoteItems ==
    { Item(VnxQuoteData, v, {}, {}) : v \in QuoteValues }
    \cup { Item(VnxQuoteData,
               [vnxPrice |-> 150, vnxLowPrice |-> 148, vnxHighPrice |-> 152,
                vnxBidPrice |-> 149, vnxAskPrice |-> 151, vnxVolume |-> 60000],
               d.missing, d.nulls) : d \in OneDefect(VnxQuoteData) }

Bodies(items) ==
    {[json |-> FALSE]}
    \cup {[json |-> TRUE, shape |-> "array", items |-> <<>>]}
    \cup {[json |-> TRUE, shape |-> "array", items |-> <<i>>] : i \in items}
    \cup {[json |-> TRUE, shape |-> "object", keys |-> ks] :
             ks \in {{}, {"error"}}}

Answers(items) ==
    {[net |-> "ConnectError"], [net |-> "ReadTimeout"]}
    \cup {[net |-> "ok", status |-> st, body |-> b] :
             st \in Statuses, b \in Bodies(items)}

(***************************************************************************)
(* The data client: src/vianexus/dataset.py:64-126.  A call ends with a    *)
(* value or with an exception: [exc |-> "none", value |-> ...] or          *)
(* [exc |-> the exception's type].                                         *)
(***************************************************************************)
Returns(value) == [exc |-> "none", value |-> value]
Raises(type) == [exc |-> type]

\* Dataset.make_request, lines 71-79: httpx.get raises when the transport
\* fails; response.json() raises on a body that is not JSON; the status of
\* the response is not looked at
make_request(answer) ==
    IF answer.net # "ok" THEN Raises(answer.net)
    ELSE IF ~answer.body.json THEN Raises("JSONDecodeError")
    ELSE Returns(answer.body)

\* StockStats.data / VnxQuote.data, lines 97-108 and 115-126:
\* [cls(**item) for item in raw_data].  Iterating a JSON object yields its
\* keys, and cls(**key) with a string raises TypeError.
validated_data(cls, schema, answer) ==
    LET raw_data == make_request(answer)
    IN  IF raw_data.exc # "none" THEN raw_data
        ELSE IF raw_data.value.shape = "object"
        THEN IF raw_data.value.keys = {} THEN Returns(<<>>)
             ELSE Raises("TypeError")
        ELSE LET items == raw_data.value.items
             IN  IF \A i \in 1..Len(items) : Validates(schema, items[i])
                 THEN Returns([i \in 1..Len(items) |->
                                  Construct(cls, schema, items[i])])
                 ELSE Raises("ValidationError")

stock_stats_data(answer) ==
    validated_data("StockStatsData", StockStatsData, answer)

vnx_quote_data(answer) ==
    validated_data("VnxQuoteData", VnxQuoteData, answer)

(***************************************************************************)
(* Python operations on a record held by the handler.  A record is a dict  *)
(* [kind |-> "dict", items |-> ...], a pydantic model object               *)
(* [kind |-> "model", cls, attrs] or None.                                 *)
(***************************************************************************)
\* `key in obj`.  A dict answers for its keys.  A pydantic BaseModel has no
\* __contains__: Python iterates it, BaseModel.__iter__ yields
\* (attribute name, value) tuples, and a string equals none of them.
PyIn(key, obj) ==
    IF obj.kind = "dict" THEN key \in DOMAIN obj.items ELSE FALSE

\* truth value of None, a dict or a model object
PyBool(obj) ==
    IF obj.kind = "none" THEN FALSE
    ELSE IF obj.kind = "dict" THEN DOMAIN obj.items # {}
    ELSE TRUE

\* obj[key] on a dict that holds the key
PyItem(obj, key) == obj.items[key]

(***************************************************************************)
(* Display strings.  A string is a sequence of parts: S(text) is literal   *)
(* text and N(format, n) a formatted number, n in units of the format's    *)
(* last decimal (hundredths for ".2f", ten-thousandths for ".4f").         *)
(***************************************************************************)
S(text) == [s |-> text]
N(format, n) == [f |-> format, n |-> n]

\* str(value)
Str(value) ==
    IF value.t = "null" THEN S("None")
    ELSE IF value.t = "str" THEN S(value.v)
    ELSE N("", value.v)

\* num/den with two decimals, in hundredths (den is 1 or a multiple of 100).
\* A tie between two hundredths goes by the binary value of the quotient;
\* the numbers drawn here have none.
Scaled2(num, den) ==
    IF den = 1 THEN num * 100
    ELSE (num \div den) * 100 + ((num % den) + den \div 200) \div (den \div 100)

\* the first k decimals of rem/den (0 <= rem < den) and what is left over
RECURSIVE Decimals(_, _, _)
Decimals(rem, den, k) ==
    IF k = 0 THEN <<0, rem>>
    ELSE LET rest == Decimals((rem * 10) % den, den, k - 1)
         IN  <<((rem * 10) \div den) * (10 ^ (k - 1)) + rest[1], rest[2]>>

\* num/den with four decimals, in ten-thousandths, rounded to nearest
\* (den > 0, num of either sign)
Ratio4(num, den) ==
    LET decimals == Decimals(num % den, den, 4)
    IN  (num \div den) * 10000 + decimals[1]
        + (IF 2 * decimals[2] >= den THEN 1 ELSE 0)

\* a part of the metric list that raised instead
Failed(type) == <<[error |-> type]>>
IsNum(value) == value.t = "num"

(***************************************************************************)
(* get_stock_stats, src/widgets/stock_stats.py:86-339: the metric list.    *)
(***************************************************************************)
\* lines 98-104
CompanyMetric(d) ==
    IF PyIn("issuerName", d)
    THEN <<[label |-> "Company",
            value |-> IF PyIn("symbol", d)
                      THEN <<Str(PyItem(d, "issuerName")), S(" ("),
                             Str(PyItem(d, "symbol")), S(")")>>
                      ELSE <<Str(PyItem(d, "issuerName"))>>]>>
    ELSE <<>>

\* lines 109-116
mic_to_exchange ==
    [XNYS |-> "NYSE", XNAS |-> "NASDAQ", XASE |-> "NYSE American",
     ARCX |-> "NYSE Arca", BATS |-> "CBOE BZX", IEXG |-> "IEX"]

\* lines 106-118
ExchangeMetric(d) ==
    IF PyIn("mic", d)
    THEN LET mic == PyItem(d, "mic")
             exchange_name ==
                 IF mic.t = "str" /\ mic.v \in DOMAIN mic_to_exchange
                 THEN S(mic_to_exchange[mic.v]) ELSE Str(mic)
         IN  <<[label |-> "Exchange",
                value |-> <<Str(mic), S(" (bullet) "), exchange_name>>]>>
    ELSE <<>>

\* lines 133-141: the display of a market capitalisation
MarketCapStr(market_cap) ==
    IF market_cap \div 1000000 >= 1000000
    THEN <<S("$"), N(".2f", Scaled2(market_cap \div 1000000, 1000000)), S("T")>>
    ELSE IF market_cap >= 1000000000
    THEN <<S("$"), N(".2f", Scaled2(market_cap, 1000000000)), S("B")>>
    ELSE IF market_cap >= 1000000
    THEN <<S("$"), N(".2f", Scaled2(market_cap, 1000000)), S("M")>>
    ELSE <<S("$"), N(",.0f", market_cap)>>

\* lines 131-143
MarketCapMetric(d, current_price) ==
    IF PyIn("sharesOutstanding", d)
    THEN IF IsNum(PyItem(d, "sharesOutstanding"))
         THEN <<[label |-> "Market Cap",
                 amount |-> current_price.v * PyItem(d, "sharesOutstanding").v,
                 value |-> MarketCapStr(
                     current_price.v * PyItem(d, "sharesOutstanding").v)]>>
         ELSE Failed("TypeError")
    ELSE <<>>

\* lines 120-143
PriceMetrics(d, q) ==
    IF PyBool(q) /\ PyIn("vnxPrice", q)
    THEN LET current_price == PyItem(q, "vnxPrice")
         IN  IF IsNum(current_price)
             THEN <<[label |-> "Current Price",
                     value |-> <<S("$"), N(".2f", Scaled2(current_price.v, 1))>>,
                     description |-> <<S("Real-time price")>>]>>
                  \o MarketCapMetric(d, current_price)
             ELSE Failed("TypeError")
    ELSE <<>>

\* lines 145-152 and 154-159: a pair of quote prices shown when both are
\* in the quote and both are above zero
PairMetric(q, label, low_key, high_key, separator) ==
    IF PyBool(q) /\ PyIn(low_key, q) /\ PyIn(high_key, q)
    THEN LET low == PyItem(q, low_key)
             high == PyItem(q, high_key)
         IN  IF ~IsNum(low) THEN Failed("TypeError")
             ELSE IF ~(low.v > 0) THEN <<>>
             ELSE IF ~IsNum(high) THEN Failed("TypeError")
             ELSE IF ~(high.v > 0) THEN <<>>
             ELSE <<[label |-> label,
                     value |-> <<S("$"), N(".2f", Scaled2(low.v, 1)),
                                 S(separator),
                                 S("$"), N(".2f", Scaled2(high.v, 1))>>]>>
    ELSE <<>>

DayRangeMetric(q) ==
    PairMetric(q, "Day's Range", "vnxLowPrice", "vnxHighPrice", " - ")

BidAskMetric(q) ==
    PairMetric(q, "Bid / Ask", "vnxBidPrice", "vnxAskPrice", " / ")

\* lines 166-172, 174-180 and 198-203: the display of a volume
VolumeStr(volume) ==
    IF volume >= 1000000
    THEN <<N(".2f", Scaled2(volume, 1000000)), S("M")>>
    ELSE IF volume >= 1000
    THEN <<N(".2f", Scaled2(volume, 1000)), S("K")>>
    ELSE <<N(",", volume)>>

\* lines 161-204
VolumeMetric(d, q) ==
    IF PyBool(q) /\ PyIn("vnxVolume", q) /\ PyIn("avg30DayVolume", d)
    THEN LET today_volume == PyItem(q, "vnxVolume")
             avg_volume == PyItem(d, "avg30DayVolume")
         IN  IF IsNum(today_volume) /\ IsNum(avg_volume)
             THEN IF avg_volume.v > 0
                  THEN <<[label |-> "Volume (Today vs Avg)",
                          value |-> VolumeStr(today_volume.v) \o <<S(" / ")>>
                                    \o VolumeStr(avg_volume.v),
                          delta |-> <<N(".4f", Ratio4(
                              today_volume.v - avg_volume.v, avg_volume.v))>>,
                          description |-> <<S("Today / 30-day average")>>]>>
                  ELSE <<[label |-> "Volume (Today)",
                          value |-> VolumeStr(today_volume.v)]>>
             ELSE Failed("TypeError")
    ELSE IF PyIn("avg30DayVolume", d)
    THEN LET volume == PyItem(d, "avg30DayVolume")
         IN  IF IsNum(volume)
             THEN <<[label |-> "Avg 30-Day Volume",
                     value |-> VolumeStr(volume.v)]>>
             ELSE Failed("TypeError")
    ELSE <<>>

\* a metric of one numeric field: label and f"{prefix}{value:.2f}"
FieldMetric(d, key, label, prefix) ==
    IF PyIn(key, d)
    THEN IF IsNum(PyItem(d, key))
         THEN <<[label |-> label,
                 value |-> <<S(prefix), N(".2f", Scaled2(PyItem(d, key).v, 1))>>]>>
         ELSE Failed("TypeError")
    ELSE <<>>

\* lines 211-229: a 52-week extreme with the date it was reached
\* (data.get(date_key, "N/A"))
ExtremeMetric(d, key, date_key, label) ==
    IF PyIn(key, d)
    THEN IF IsNum(PyItem(d, key))
         THEN <<[label |-> label,
                 value |-> <<S("$"), N(".2f", Scaled2(PyItem(d, key).v, 1))>>,
                 description |->
                     <<S("Date: "),
                       IF PyIn(date_key, d) THEN Str(PyItem(d, date_key))
                       ELSE S("N/A")>>]>>
         ELSE Failed("TypeError")
    ELSE <<>>

\* lines 231-251: a fractional change (held in units of 0.0001) shown as a
\* signed percentage, with the fraction as delta
ChangeMetric(d, key, label) ==
    IF PyIn(key, d)
    THEN IF IsNum(PyItem(d, key))
         THEN <<[label |-> label,
                 value |-> <<N("+.2f", PyItem(d, key).v), S("%")>>,
                 delta |-> <<N(".4f", PyItem(d, key).v)>>]>>
         ELSE Failed("TypeError")
    ELSE <<>>

\* lines 210-251
PerformanceMetrics(d) ==
    ExtremeMetric(d, "52weekHigh", "52weekHighDate", "52-Week High")
    \o ExtremeMetric(d, "52weekLow", "52weekLowDate", "52-Week Low")
    \o ChangeMetric(d, "52weekChange", "52-Week Change")
    \o ChangeMetric(d, "ytdChange", "YTD Change")

\* lines 257-274
FundamentalMetrics(d) ==
    FieldMetric(d, "peRatioTtm", "P/E Ratio (TTM)", "")
    \o FieldMetric(d, "epsTtm", "EPS (TTM)", "$")
    \o IF PyIn("beta", d)
       THEN IF IsNum(PyItem(d, "beta"))
            THEN <<[label |-> "Beta",
                    value |-> <<S(""), N(".2f", Scaled2(PyItem(d, "beta").v, 1))>>,
                    description |-> <<S("Volatility measure vs. market")>>]>>
            ELSE Failed("TypeError")
       ELSE <<>>

\* lines 295-301: the display of a number of shares
SharesStr(shares) ==
    IF shares >= 1000000000
    THEN <<N(".2f", Scaled2(shares, 1000000000)), S("B")>>
    ELSE IF shares >= 1000000
    THEN <<N(".2f", Scaled2(shares, 1000000)), S("M")>>
    ELSE <<N(",", shares)>>

\* lines 280-303
TechnicalMetrics(d) ==
    FieldMetric(d, "day50MovingAverage", "50-Day MA", "$")
    \o FieldMetric(d, "day200MovingAverage", "200-Day MA", "$")
    \o IF PyIn("sharesOutstanding", d)
       THEN IF IsNum(PyItem(d, "sharesOutstanding"))
            THEN <<[label |-> "Shares Outstanding",
                    value |-> SharesStr(PyItem(d, "sharesOutstanding").v)]>>
            ELSE Failed("TypeError")
       ELSE <<>>

\* lines 319-329: the age of the record, from milliseconds elapsed
TimeAgo(elapsed_ms) ==
    IF elapsed_ms < 60 * 1000 THEN <<S("Just now")>>
    ELSE IF elapsed_ms < 3600 * 1000
    THEN <<N("", elapsed_ms \div (60 * 1000)), S(" min ago")>>
    ELSE IF elapsed_ms < 86400 * 1000
    THEN LET hours == elapsed_ms \div (3600 * 1000)
         IN  <<N("", hours), S(IF hours = 1 THEN " hr ago" ELSE " hrs ago")>>
    ELSE LET days == elapsed_ms \div (86400 * 1000)
         IN  <<N("", days), S(IF days = 1 THEN " day ago" ELSE " days ago")>>

\* the host's time zone: the UTC offset in force before and from an
\* instant, in milliseconds (UTC; a zone entering summer time; a zone
\* leaving it)
Transition == 110000
Zones ==
    { [at |-> Transition, before |-> 0, after |-> 0],
      [at |-> Transition, before |-> 0, after |-> 3600000],
      [at |-> Transition, before |-> 3600000, after |-> 0] }

utcoffset(zone, instant) ==
    IF instant < zone.at THEN zone.before ELSE zone.after

\* datetime.fromtimestamp(ms / 1000) and datetime.now(): the naive local
\* reading of an instant, in milliseconds
fromtimestamp(instant, zone) == instant + utcoffset(zone, instant)

\* lines 309-337; now is the instant of datetime.now() and the host's zone.
\* time_diff is the difference of two naive local readings.
FreshnessMetric(d, now) ==
    IF PyIn("updated", d)
    THEN IF IsNum(PyItem(d, "updated"))
         THEN LET updated_dt ==
                      fromtimestamp(PyItem(d, "updated").v, now.zone)
                  time_diff == fromtimestamp(now.utc, now.zone) - updated_dt
              IN  <<[label |-> "Last Updated",
                     value |-> TimeAgo(time_diff),
                     description |->
                         <<N("%Y-%m-%d %H:%M:%S", updated_dt \div 1000)>>]>>
         ELSE Failed("TypeError")
    ELSE <<>>

\* a list built without looking at metrics_display
BuildMetrics_every_section(d, q, display, now) ==
    LET metrics ==
            CompanyMetric(d) \o ExchangeMetric(d) \o PriceMetrics(d, q)
            \o DayRangeMetric(q) \o BidAskMetric(q) \o VolumeMetric(d, q)
            \o PerformanceMetrics(d) \o FundamentalMetrics(d)
            \o TechnicalMetrics(d) \o FreshnessMetric(d, now)
    IN  IF \E i \in 1..Len(metrics) : "error" \in DOMAIN metrics[i]
        THEN Raises("TypeError")
        ELSE Returns(metrics)

\* a list whose Last Updated metric sits inside the technical section
BuildMetrics_freshness_technical(d, q, display, now) ==
    LET show_performance == display \in {"all", "price_performance"}
        show_fundamentals == display \in {"all", "fundamentals"}
        show_technical == display \in {"all", "technical"}
        metrics ==
            CompanyMetric(d) \o ExchangeMetric(d) \o PriceMetrics(d, q)
            \o DayRangeMetric(q) \o BidAskMetric(q) \o VolumeMetric(d, q)
            \o (IF show_performance THEN PerformanceMetrics(d) ELSE <<>>)
            \o (IF show_fundamentals THEN FundamentalMetrics(d) ELSE <<>>)
            \o (IF show_technical
                THEN TechnicalMetrics(d) \o FreshnessMetric(d, now)
                ELSE <<>>)
    IN  IF \E i \in 1..Len(metrics) : "error" \in DOMAIN metrics[i]
        THEN Raises("TypeError")
        ELSE Returns(metrics)

\* lines 86-339: the metric list, or the exception that building it raised
BuildMetrics(d, q, display, now) ==
    LET show_performance == display \in {"all", "price_performance"}
        show_fundamentals == display \in {"all", "fundamentals"}
        show_technical == display \in {"all", "technical"}
        metrics ==
            CompanyMetric(d) \o ExchangeMetric(d) \o PriceMetrics(d, q)
            \o DayRangeMetric(q) \o BidAskMetric(q) \o VolumeMetric(d, q)
            \o (IF show_performance THEN PerformanceMetrics(d) ELSE <<>>)
            \o (IF show_fundamentals THEN FundamentalMetrics(d) ELSE <<>>)
            \o (IF show_technical THEN TechnicalMetrics(d) ELSE <<>>)
            \o FreshnessMetric(d, now)
    IN  IF \E i \in 1..Len(metrics) : "error" \in DOMAIN metrics[i]
        THEN Raises("TypeError")
        ELSE Returns(metrics)

(***************************************************************************)
(* get_stock_stats, src/widgets/stock_stats.py:51-350, step by step: the   *)
(* primary fetch, the quote fetch, the metric list.                        *)
(***************************************************************************)
Symbols == {"aapl", "MSFT"}
\* str.upper()
Upper(text) == IF text = "aapl" THEN "AAPL" ELSE text

\* the documented values of metrics_display and one that is not
Displays ==
    {"all", "price_performance", "fundamentals", "technical", "summary"}

\* the instants of datetime.now(), in milliseconds: the record was updated
\* at 100000, so 30 s, 59.999 s, 60 s, 90 s, ... 2 days before, or 10 s after
Instants ==
    { 90000, 130000, 159999, 160000, 190000, 3699000, 3700000, 3800000,
      7300000, 86499000, 86500000, 90100000, 172900000 }

\* datetime.now() on the host: an instant and the host's zone
Clock == [utc : Instants, zone : Zones]

HTTPException(status_code, detail) ==
    [type |-> "HTTPException", status_code |-> status_code, detail |-> detail]

\* how an invocation ends for its caller
Success(content) == [status |-> 200, content |-> content]
Failure(status_code, detail) == [status |-> status_code, detail |-> detail]

\* a handler without the `except HTTPException: raise` clause
Propagate_all_500(raised, sym) ==
    Failure(500, <<"Error fetching data for symbol ", sym, ": ",
                   IF raised.type = "HTTPException"
                   THEN "HTTPException" ELSE raised.type>>)

\* a handler without the `except Exception` clause: the exception itself
\* comes out
Propagate_uncaught(raised, sym) ==
    IF raised.type = "HTTPException"
    THEN Failure(raised.status_code, raised.detail)
    ELSE [status |-> 0, escaped |-> raised.type]

\* lines 341-350: an HTTPException leaves the handler as it is, any other
\* exception as HTTPException 500 with str(e) in its detail
Propagate(raised, sym) ==
    IF raised.type = "HTTPException"
    THEN Failure(raised.status_code, raised.detail)
    ELSE Failure(500, <<"Error fetching data for symbol ", sym, ": ",
                        raised.type>>)

\* a request arrives: GET /stock_stats?symbol=..&metrics_display=..
Request ==
    /\ pc = "idle"
    /\ \E sym \in Symbols, display \in Displays :
        /\ symbol' = sym
        /\ metrics_display' = display
    /\ pc' = "primary"
    /\ UNCHANGED <<data, quote_data, result, calls, primary, quote,
                   registryVars, formatVars,
                   chartVars>>

\* lines 65-74
PrimaryFetch ==
    /\ pc = "primary"
    /\ \E answer \in Answers(StatsItems) :
        LET stats_response == stock_stats_data(answer)
        IN  /\ primary' = answer
            /\ IF stats_response.exc # "none"
               THEN /\ result' = Propagate([type |-> stats_response.exc], symbol)
                    /\ pc' = "done"
                    /\ UNCHANGED data
               ELSE IF Len(stats_response.value) = 0
               THEN /\ result' = Propagate(
                                     HTTPException(404,
                                         <<"No data found for symbol: ", symbol>>),
                                     symbol)
                    /\ pc' = "done"
                    /\ UNCHANGED data
               ELSE /\ data' = stats_response.value[1]
                    /\ pc' = "quote"
                    /\ UNCHANGED result
    /\ calls' = Append(calls, [dataset |-> "CORE/STOCK_STATS_US",
                               symbols |-> <<Upper(symbol)>>])
    /\ UNCHANGED <<symbol, metrics_display, quote_data, quote, registryVars, formatVars,
                   chartVars>>

\* a quote fetch that is issued once more after a failure
QuoteFetch_retry ==
    /\ pc = "quote"
    /\ \E answer \in Answers(QuoteItems) :
        LET quote_response == vnx_quote_data(answer)
        IN  /\ quote' = answer
            /\ quote_data' =
                   IF quote_response.exc = "none"
                      /\ Len(quote_response.value) > 0
                   THEN quote_response.value[1]
                   ELSE NoRecord
            /\ pc' = IF quote_response.exc # "none" /\ Len(calls) < 2
                     THEN "quote" ELSE "format"
    /\ calls' = Append(calls, [dataset |-> "EDGE/VNX_QUOTE",
                               symbols |-> <<Upper(symbol)>>])
    /\ UNCHANGED <<symbol, metrics_display, data, result, primary,
                   registryVars, formatVars, chartVars>>

\* a quote fetch made outside the inner guard: its exception ends the
\* invocation
QuoteFetch_unguarded ==
    /\ pc = "quote"
    /\ \E answer \in Answers(QuoteItems) :
        LET quote_response == vnx_quote_data(answer)
        IN  /\ quote' = answer
            /\ IF quote_response.exc # "none"
               THEN /\ result' = Propagate([type |-> quote_response.exc], symbol)
                    /\ pc' = "done"
                    /\ UNCHANGED quote_data
               ELSE /\ quote_data' =
                           IF Len(quote_response.value) > 0
                           THEN quote_response.value[1]
                           ELSE NoRecord
                    /\ pc' = "format"
                    /\ UNCHANGED result
    /\ calls' = Append(calls, [dataset |-> "EDGE/VNX_QUOTE",
                               symbols |-> <<Upper(symbol)>>])
    /\ UNCHANGED <<symbol, metrics_display, data, primary,
                   registryVars, formatVars, chartVars>>

\* lines 76-84: any exception of the quote fetch is logged and dropped
QuoteFetch ==
    /\ pc = "quote"
    /\ \E answer \in Answers(QuoteItems) :
        LET quote_response == vnx_quote_data(answer)
        IN  /\ quote' = answer
            /\ quote_data' =
                   IF quote_response.exc = "none"
                      /\ Len(quote_response.value) > 0
                   THEN quote_response.value[1]
                   ELSE NoRecord
    /\ calls' = Append(calls, [dataset |-> "EDGE/VNX_QUOTE",
                               symbols |-> <<Upper(symbol)>>])
    /\ pc' = "format"
    /\ UNCHANGED <<symbol, metrics_display, data, result, primary,
                   registryVars, formatVars,
                   chartVars>>

\* lines 86-339, and 341-350 when building the list raises
Format ==
    /\ pc = "format"
    /\ \E now \in Clock :
        LET built == BuildMetrics(data, quote_data, metrics_display, now)
        IN  result' = IF built.exc = "none"
                      THEN Success(built.value)
                      ELSE Propagate([type |-> built.exc], symbol)
    /\ pc' = "done"
    /\ UNCHANGED <<symbol, metrics_display, data, quote_data, calls,
                   primary, quote, registryVars, formatVars,
                   chartVars>>

\* the response is sent; the next request finds a fresh invocation
Respond ==
    /\ pc = "done"
    /\ pc' = "idle"
    /\ symbol' = None
    /\ metrics_display' = None
    /\ data' = NoRecord
    /\ quote_data' = NoRecord
    /\ result' = NoResult
    /\ calls' = <<>>
    /\ primary' = NoAnswer
    /\ quote' = NoAnswer
    /\ UNCHANGED <<registryVars, formatVars, chartVars>>

StatsNext ==
    \/ Request
    \/ PrimaryFetch
    \/ QuoteFetch
    \/ Format
    \/ Respond

SpecStats == Init /\ [][StatsNext]_vars

(***************************************************************************)
(* The display and list-building code as functions of their input: the     *)
(* number scaling of src/widgets/stock_stats.py:166-203 and 295-301, the   *)
(* metric list of lines 86-339 and the series of                           *)
(* src/widgets/stock_chart.py:61-72, each applied to one input drawn from  *)
(* a bounded set.                                                          *)
(***************************************************************************)
\* volumes and numbers of shares, around the thresholds of the scaling
Counts ==
    { 0, 1, 999, 1000, 5000, 50000, 999999, 1000000, 2500000, 999999999,
      1000000000, 2000000000 }

\* a record as the handler of src/main.py gets it from via_nexus.dataset:
\* the JSON object itself
Dict(item) == [kind |-> "dict", items |-> item]

FullStats ==
    [sharesOutstanding |-> 10000000, avg30DayVolume |-> 50000,
     updated |-> 100000]

FullQuote ==
    [vnxPrice |-> 150, vnxLowPrice |-> 148, vnxHighPrice |-> 152,
     vnxBidPrice |-> 149, vnxAskPrice |-> 151, vnxVolume |-> 60000]

\* primary records: complete, or one field missing or null
FormatItems ==
    { Item(StockStatsData, v, {}, {}) : v \in StatsValues }
    \cup { Item(StockStatsData, FullStats, d.missing, d.nulls) :
               d \in OneDefect(StockStatsData) }

\* as plain dicts and, where they validate, as StockStatsData objects
FormatRecords ==
    { Dict(item) : item \in FormatItems }
    \cup { Construct("StockStatsData", StockStatsData, item) :
               item \in { i \in FormatItems : Validates(StockStatsData, i) } }

FormatQuoteItems ==
    { Item(VnxQuoteData, FullQuote, {}, {}),
      Item(VnxQuoteData, [FullQuote EXCEPT !.vnxVolume = 0], {}, {}),
      Item(VnxQuoteData, [FullQuote EXCEPT !.vnxLowPrice = 0], {}, {}),
      Item(VnxQuoteData, FullQuote, {"vnxVolume"}, {}),
      Item(VnxQuoteData, FullQuote, {}, {"vnxVolume"}),
      Item(VnxQuoteData, FullQuote, {"vnxPrice"}, {}),
      Item(VnxQuoteData, FullQuote, {}, {"vnxPrice"}) }

\* no quote, a quote as a plain dict, a quote as a VnxQuoteData object
FormatQuotes ==
    {NoRecord}
    \cup { Dict(item) : item \in FormatQuoteItems }
    \cup { Construct("VnxQuoteData", VnxQuoteData,
                     Item(VnxQuoteData, FullQuote, {}, {})) }

(***************************************************************************)
(* get_stock_chart, src/widgets/stock_chart.py:61-72: the date axis and    *)
(* the two series.                                                         *)
(***************************************************************************)
\* record.get(key, default) on a dict
PyGet(obj, key, default) ==
    IF key \in DOMAIN obj.items THEN obj.items[key] ELSE default

\* a builder that appends an average only where the record has one
RECURSIVE ChartSeries_only_present(_)
ChartSeries_only_present(records) ==
    IF records = <<>>
    THEN [dates |-> <<>>, ma_50 |-> <<>>, ma_200 |-> <<>>]
    ELSE LET record == Head(records)
             rest == ChartSeries_only_present(Tail(records))
         IN  IF PyIn("date", record)
             THEN [dates |-> <<PyItem(record, "date")>> \o rest.dates,
                   ma_50 |->
                       (IF PyIn("day50MovingAverage", record)
                        THEN <<PyItem(record, "day50MovingAverage")>>
                        ELSE <<>>) \o rest.ma_50,
                   ma_200 |->
                       (IF PyIn("day200MovingAverage", record)
                        THEN <<PyItem(record, "day200MovingAverage")>>
                        ELSE <<>>) \o rest.ma_200]
             ELSE rest

\* lines 62-72: dates, ma_50 and ma_200 after the loop over response
RECURSIVE ChartSeries(_)
ChartSeries(records) ==
    IF records = <<>>
    THEN [dates |-> <<>>, ma_50 |-> <<>>, ma_200 |-> <<>>]
    ELSE LET record == Head(records)
             rest == ChartSeries(Tail(records))
         IN  IF PyIn("date", record)
             THEN [dates |-> <<PyItem(record, "date")>> \o rest.dates,
                   ma_50 |->
                       <<PyGet(record, "day50MovingAverage", JNull)>>
                       \o rest.ma_50,
                   ma_200 |->
                       <<PyGet(record, "day200MovingAverage", JNull)>>
                       \o rest.ma_200]
             ELSE rest

\* longest history drawn
MaxHistory == 3

\* a historical record, as far as the loop reads it: a date or none, each
\* moving average or none
ChartItem(date, day50, day200) ==
    [k \in (IF date = "" THEN {} ELSE {"date"})
           \cup (IF day50 = 0 THEN {} ELSE {"day50MovingAverage"})
           \cup (IF day200 = 0 THEN {} ELSE {"day200MovingAverage"}) |->
        IF k = "date" THEN JStr(date)
        ELSE IF k = "day50MovingAverage" THEN JNum(day50)
        ELSE JNum(day200)]

ChartRecords ==
    { Dict(ChartItem(date, day50, day200)) :
          date \in {"", "2024-01-02", "2024-01-03"},
          day50 \in {0, 101, 102},
          day200 \in {0, 201} }

RECURSIVE SeqsUpTo(_, _)
SeqsUpTo(elements, k) ==
    IF k = 0 THEN {<<>>}
    ELSE LET shorter == SeqsUpTo(elements, k - 1)
         IN  shorter \cup { <<x>> \o q : x \in elements, q \in shorter }

\* the non-empty histories (an empty one ends the handler at line 56)
Histories == SeqsUpTo(ChartRecords, MaxHistory) \ {<<>>}

\* lines 61-72 on one history
BuildSeries ==
    /\ shown = NoShown
    /\ \E response_ \in Histories :
        shown' = [op |-> "series", response |-> response_,
                  series |-> ChartSeries(response_)]
    /\ UNCHANGED <<registryVars, statsVars, chartVars>>

\* lines 166-180, 198-203 and 295-301 on one number
ScaleNumber ==
    /\ shown = NoShown
    /\ \E n \in Counts :
        shown' = [op |-> "scale", n |-> n,
                  volume_str |-> VolumeStr(n),
                  shares_str |-> SharesStr(n)]
    /\ UNCHANGED <<registryVars, statsVars, chartVars>>

\* lines 86-339 on one record, quote, filter and clock reading
FormatRecord ==
    /\ shown = NoShown
    /\ \E d \in FormatRecords, q \in FormatQuotes, display \in Displays,
          now \in Clock :
        shown' = [op |-> "metrics", data |-> d, quote_data |-> q,
                  metrics_display |-> display, now |-> now,
                  built |-> BuildMetrics(d, q, display, now)]
    /\ UNCHANGED <<registryVars, statsVars, chartVars>>

\* the value is handed on; the next application starts afresh
Forget ==
    /\ shown # NoShown
    /\ shown' = NoShown
    /\ UNCHANGED <<registryVars, statsVars, chartVars>>

FormatNext ==
    \/ ScaleNumber
    \/ FormatRecord
    \/ BuildSeries
    \/ Forget

SpecFormat == Init /\ [][FormatNext]_vars

(***************************************************************************)
(* get_stock_chart, src/widgets/stock_chart.py:39-129, step by step.       *)
(***************************************************************************)
\* the attributes of the StockStats instance, src/vianexus/dataset.py:64-108
StockStatsAttributes ==
    {"base_url", "api_key", "namespace", "dataset", "make_request", "data"}

\* obj.name on the StockStats instance
GetAttr(name) ==
    IF name \in StockStatsAttributes
    THEN Returns(name) ELSE Raises("AttributeError")

\* the historical records the upstream may hold for a symbol
ChartItems == { record.items : record \in ChartRecords }

\* lines 120-129: an HTTPException leaves the handler as it is, any other
\* exception as HTTPException 500 with str(e) in its detail
ChartPropagate(raised, sym) ==
    IF raised.type = "HTTPException"
    THEN Failure(raised.status_code, raised.detail)
    ELSE Failure(500, <<"Error fetching chart data for symbol ", sym, ": ",
                        raised.type>>)

\* a request arrives: GET /stock_chart?symbol=..
ChartRequest ==
    /\ chart_pc = "idle"
    /\ \E sym \in Symbols, answer \in Answers(ChartItems) :
        /\ chart_symbol' = sym
        /\ history' = answer
    /\ chart_pc' = "fetch"
    /\ UNCHANGED <<chart_result, chart_calls, registryVars, statsVars,
                   formatVars>>

\* line 53 and lines 120-129: stock_stats.historical_data is looked up on
\* the StockStats instance, which has no such attribute; the AttributeError
\* is raised before any request is issued
ChartFetch ==
    /\ chart_pc = "fetch"
    /\ GetAttr("historical_data").exc # "none"
    /\ chart_result' =
           ChartPropagate([type |-> GetAttr("historical_data").exc],
                          chart_symbol)
    /\ chart_pc' = "done"
    /\ UNCHANGED <<chart_symbol, history, chart_calls, registryVars,
                   statsVars, formatVars>>

\* the response is sent; the next request finds a fresh invocation
ChartRespond ==
    /\ chart_pc = "done"
    /\ chart_pc' = "idle"
    /\ chart_symbol' = None
    /\ history' = NoAnswer
    /\ chart_result' = NoResult
    /\ chart_calls' = <<>>
    /\ UNCHANGED <<registryVars, statsVars, formatVars>>

ChartNext ==
    \/ ChartRequest
    \/ ChartFetch
    \/ ChartRespond

SpecChart == Init /\ [][ChartNext]_vars

\* both widgets, one request at a time (the handlers share no state)
HandlersNext ==
    \/ chart_pc = "idle" /\ StatsNext
    \/ pc = "idle" /\ ChartNext

SpecHandlers == Init /\ [][HandlersNext]_vars

(***************************************************************************)
(* Claims about the registry, checked under SpecRegistry.                  *)
(***************************************************************************)
\* the descriptor as the registry stores it: the identifier filled in
Stored(widget_config) ==
    DictSet(widget_config, "widgetId", IdOf(widget_config))

HoldsLatest(W, module) ==
    /\ DOMAIN W = DOMAIN latest[module]
    /\ \A k \in DOMAIN W : W[k] = Stored(latest[module][k])

\* C1: after any sequence of register_widget calls each registry holds, for
\* every identifier registered, exactly the descriptor of the most recent
\* registration made under it (last write wins, nothing else is kept).
C1_LastWriteWins ==
    /\ HoldsLatest(WIDGETS, "registry")
    /\ HoldsLatest(main_WIDGETS, "main")

\* C1 witness: an identifier was registered again with another descriptor
C1_Witness ==
    \E k \in DOMAIN WIDGETS :
        /\ <<"registry", k>> \in superseded
        /\ WIDGETS[k] = Stored(latest["registry"][k])

\* C2 (as stated): a GET /widgets.json response has an entry for the
\* identifier of every descriptor passed to register_widget before it,
\* whatever module registered it.
C2_ReadReflectsAll ==
    response.op = "get_widgets" =>
        \A id \in passed : id \in DOMAIN response.content

KeyIsWidgetId(W, module) ==
    \A k \in DOMAIN W :
        /\ "widgetId" \in DOMAIN W[k]
        /\ W[k]["widgetId"] = k
        /\ k \in DOMAIN latest[module]
        /\ IF "widgetId" \in DOMAIN latest[module][k]
           THEN k = latest[module][k]["widgetId"]
           ELSE k = latest[module][k]["endpoint"]

\* C3: the key of every registry entry is the explicit widgetId of the
\* descriptor registered, or its endpoint name when it had none, and the
\* stored descriptor's widgetId field equals its key.
C3_KeyIsWidgetId ==
    /\ KeyIsWidgetId(WIDGETS, "registry")
    /\ KeyIsWidgetId(main_WIDGETS, "main")

\* C3 witness: one entry keyed by a derived identifier and one keyed by an
\* explicit identifier that differs from its endpoint
C3_Witness ==
    \E k1, k2 \in DOMAIN WIDGETS :
        /\ "widgetId" \notin DOMAIN latest["registry"][k1]
        /\ "widgetId" \in DOMAIN latest["registry"][k2]
        /\ WIDGETS[k2]["endpoint"] # k2

WrapperEquivalent ==
    response.op = "wrapper" =>
        response.result = CallHandler(lastWrapper.func, response.args)

\* C4: a call of the wrapper returned by register_widget ends as the call
\* of the handler does (same result or exception, coroutine exactly when
\* the handler is one), and the call writes to no registry.
C4_WrapperTransparent ==
    /\ []WrapperEquivalent
    /\ [][response'.op = "wrapper" /\ response' # response
            => UNCHANGED <<WIDGETS, main_WIDGETS>>]_vars

\* C4 witness: the wrapper of a coroutine handler was called and the
\* handler raised
C4_Witness ==
    /\ response.op = "wrapper"
    /\ lastWrapper.func.isCoroutine
    /\ response.result.suspends
    /\ response.result.outcome[1] = "raise"
    /\ DOMAIN WIDGETS # {}

(***************************************************************************)
(* Claims about get_stock_stats, checked under SpecStats.                  *)
(***************************************************************************)
\* what the upstream sent, read off its answer
Responded(answer) == answer.net = "ok"
SentJson(answer) == Responded(answer) /\ answer.body.json
SentRecords(answer) ==
    IF SentJson(answer) /\ answer.body.shape = "array"
    THEN answer.body.items ELSE <<>>
\* a JSON answer that holds nothing: an empty array or an empty object
SentNoRecord(answer) ==
    /\ SentJson(answer)
    /\ \/ answer.body.shape = "array" /\ Len(answer.body.items) = 0
       \/ answer.body.shape = "object" /\ answer.body.keys = {}

\* the field is in the upstream record, with a value
Sent(item, alias) == alias \in DOMAIN item /\ item[alias] # JNull

\* the labels of a metric list
Labels(content) == { content[i].label : i \in 1..Len(content) }
Ended == pc = "done"
Succeeded == Ended /\ result.status = 200

\* C5: when the primary fetch returns zero records the invocation ends with
\* HTTP 404 whose detail names the symbol; it is not turned into a 500 and
\* no metric list is returned.
C5_NotFound ==
    (Ended /\ SentNoRecord(primary)) =>
        /\ result.status = 404
        /\ result.detail = <<"No data found for symbol: ", symbol>>
        /\ "content" \notin DOMAIN result

\* C5 witness: the upstream answered 200 with an empty array
C5_Witness ==
    /\ Ended
    /\ SentNoRecord(primary)
    /\ primary.status = 200
    /\ primary.body.shape = "array"
    /\ result.status = 404

\* the primary fetch ended in a transport failure, a timeout, a body that
\* is not JSON or a response that is not 2xx
PrimaryFailed ==
    \/ primary.net \in {"ConnectError", "ReadTimeout"}
    \/ Responded(primary) /\ ~primary.body.json
    \/ Responded(primary) /\ primary.status \notin 200..299

\* C6 (as stated): whenever the primary fetch ends in a transport failure,
\* a timeout, a non-JSON response or a non-2xx response, the invocation
\* ends with HTTP 500 whose detail carries the cause, never with a payload
\* or a 404.
C6_UpstreamFailureIs500 ==
    (Ended /\ PrimaryFailed) =>
        /\ result.status = 500
        /\ Len(result.detail) = 4
        /\ result.detail[2] = symbol

\* the quote fetch raised or returned zero records
QuoteUnavailable ==
    \/ quote.net \in {"ConnectError", "ReadTimeout"}
    \/ Responded(quote) /\ ~quote.body.json
    \/ SentNoRecord(quote)
    \/ vnx_quote_data(quote).exc # "none"

QuoteLabels == {"Current Price", "Market Cap", "Day's Range", "Bid / Ask"}
VolumeLabels ==
    {"Volume (Today vs Avg)", "Volume (Today)", "Avg 30-Day Volume"}

\* C7 (as stated): when the primary fetch returned a record and the quote
\* fetch raised or returned zero records, the invocation succeeds with the
\* output of an absent quote: no Current Price, Market Cap, Day's Range or
\* Bid / Ask metric, and the average-only volume metric when the primary
\* record has avg30DayVolume.
C7_QuoteBestEffort ==
    (Ended /\ Len(SentRecords(primary)) > 0 /\ data # NoRecord
       /\ QuoteUnavailable) =>
        /\ result.status = 200
        /\ Labels(result.content) \cap QuoteLabels = {}
        /\ Sent(SentRecords(primary)[1], "avg30DayVolume") =>
               Labels(result.content) \cap VolumeLabels = {"Avg 30-Day Volume"}

\* the metric of each recognised field of the primary record and the
\* metrics_display values that show it ("*": every value)
FieldMetrics ==
    { <<"issuerName", "Company", {"*"}>>,
      <<"mic", "Exchange", {"*"}>>,
      <<"52weekHigh", "52-Week High", {"all", "price_performance"}>>,
      <<"52weekLow", "52-Week Low", {"all", "price_performance"}>>,
      <<"52weekChange", "52-Week Change", {"all", "price_performance"}>>,
      <<"ytdChange", "YTD Change", {"all", "price_performance"}>>,
      <<"peRatioTtm", "P/E Ratio (TTM)", {"all", "fundamentals"}>>,
      <<"epsTtm", "EPS (TTM)", {"all", "fundamentals"}>>,
      <<"beta", "Beta", {"all", "fundamentals"}>>,
      <<"day50MovingAverage", "50-Day MA", {"all", "technical"}>>,
      <<"day200MovingAverage", "200-Day MA", {"all", "technical"}>>,
      <<"sharesOutstanding", "Shares Outstanding", {"all", "technical"}>>,
      <<"updated", "Last Updated", {"*"}>> }

Shown(filters) == "*" \in filters \/ metrics_display \in filters

\* the primary fetch returned a record whose fields, where present, have
\* a value
PrimaryRecordSent ==
    /\ Len(SentRecords(primary)) > 0
    /\ \A a \in DOMAIN SentRecords(primary)[1] :
           SentRecords(primary)[1][a] # JNull

\* C8 (as stated): whatever subset of the recognised fields the primary
\* record lacks, the invocation succeeds; a field that is absent yields no
\* metric and a field that is present (in a section shown) yields its
\* metric.
C8_FieldsOptional ==
    (Ended /\ PrimaryRecordSent) =>
        /\ result.status = 200
        /\ \A fm \in FieldMetrics :
               fm[2] \in Labels(result.content)
                   <=> (fm[1] \in DOMAIN SentRecords(primary)[1] /\ Shown(fm[3]))

\* the value the handler holds for a field of a record it fetched:
\* an item of a dict, an attribute of a model object; None otherwise
Held(schema, record, alias) ==
    IF record.kind = "dict"
    THEN IF alias \in DOMAIN record.items THEN record.items[alias] ELSE JNull
    ELSE IF record.kind = "model"
    THEN record.attrs[(CHOOSE row \in schema : row.alias = alias).attr]
    ELSE JNull

Has(schema, record, alias) == Held(schema, record, alias) # JNull

\* C9 (as stated): the output has a Market Cap metric exactly when the
\* quote's vnxPrice and the primary record's sharesOutstanding are both
\* present, and its amount is then price x sharesOutstanding.
C9_MarketCap ==
    Succeeded =>
        LET both == /\ Has(VnxQuoteData, quote_data, "vnxPrice")
                    /\ Has(StockStatsData, data, "sharesOutstanding")
        IN  /\ "Market Cap" \in Labels(result.content) <=> both
            /\ \A i \in 1..Len(result.content) :
                   result.content[i].label = "Market Cap" =>
                       result.content[i].amount =
                           Held(VnxQuoteData, quote_data, "vnxPrice").v
                           * Held(StockStatsData, data, "sharesOutstanding").v

\* both prices are in the quote and above zero
BothPositive(low_key, high_key) ==
    /\ Has(VnxQuoteData, quote_data, low_key)
    /\ Has(VnxQuoteData, quote_data, high_key)
    /\ Held(VnxQuoteData, quote_data, low_key).v > 0
    /\ Held(VnxQuoteData, quote_data, high_key).v > 0

\* C10 (as stated): Day's Range is in the output exactly when vnxLowPrice
\* and vnxHighPrice are both present and above zero, Bid / Ask exactly when
\* vnxBidPrice and vnxAskPrice are.
C10_RangeAndBidAsk ==
    Succeeded =>
        /\ "Day's Range" \in Labels(result.content)
               <=> BothPositive("vnxLowPrice", "vnxHighPrice")
        /\ "Bid / Ask" \in Labels(result.content)
               <=> BothPositive("vnxBidPrice", "vnxAskPrice")

\* the requests of the invocation for one dataset
CallsFor(dataset) ==
    SelectSeq(calls, LAMBDA call : call.dataset = dataset)

\* the primary fetch has been issued once, first, and the quote fetch at
\* most once, second, after a primary fetch that returned a record
CallsInOrder ==
    /\ Len(CallsFor("CORE/STOCK_STATS_US"))
           = (IF pc \in {"idle", "primary"} THEN 0 ELSE 1)
    /\ Len(CallsFor("EDGE/VNX_QUOTE"))
           = (IF pc \in {"format", "done"} /\ data # NoRecord THEN 1 ELSE 0)
    /\ Len(calls) > 0 => calls[1].dataset = "CORE/STOCK_STATS_US"
    /\ Len(calls) > 1 =>
           /\ calls[2].dataset = "EDGE/VNX_QUOTE"
           /\ Len(SentRecords(primary)) > 0
    /\ Len(calls) <= 2

\* from the start of the list building to the end of the invocation no
\* request is added
NoCallWhileBuilding ==
    (pc \in {"format", "done"} /\ pc' # "idle") => (calls' = calls)

\* C19: in every invocation the primary fetch is issued exactly once and
\* first, the quote fetch at most once and only after the primary fetch
\* returned a record; no fetch is issued again after a failure or timeout
\* and none once the metric list is being built.
C19_CallsSequential ==
    /\ []CallsInOrder
    /\ [][NoCallWhileBuilding]_vars

\* C19 witness: the quote fetch timed out and the invocation ended with
\* two requests issued
C19_Witness ==
    /\ Ended
    /\ quote.net = "ReadTimeout"
    /\ Len(calls) = 2
    /\ result.status = 200

(***************************************************************************)
(* Claims about the display of numbers and the metric list, checked under  *)
(* SpecFormat.                                                             *)
(***************************************************************************)
\* the scaling the claims describe: literal below 1,000, then K, M and B
ClaimedScale(n) ==
    IF n < 1000 THEN <<N(",", n)>>
    ELSE IF n < 1000000 THEN <<N(".2f", Scaled2(n, 1000)), S("K")>>
    ELSE IF n < 1000000000 THEN <<N(".2f", Scaled2(n, 1000000)), S("M")>>
    ELSE <<N(".2f", Scaled2(n, 1000000000)), S("B")>>

\* C11 (as stated): for every volume v >= 0 the display is the literal
\* integer below 1,000, v/1,000 with K below 1,000,000, v/1,000,000 with M
\* below 1,000,000,000 and v/1,000,000,000 with B from there on.
C11_VolumeTiers ==
    shown.op = "scale" => shown.volume_str = ClaimedScale(shown.n)

\* C12 (as stated): a number formatted as a volume and as shares
\* outstanding gets the same tier and the same display string.
C12_SameScaling ==
    shown.op = "scale" => shown.volume_str = shown.shares_str

\* a successful application of the list-building code
Built == shown.op = "metrics" /\ shown.built.exc = "none"

\* the metrics of the list that carry one of the labels
MetricsOf(content, labels) ==
    SelectSeq(content, LAMBDA metric : metric.label \in labels)

\* whole seconds between the record's updated timestamp and the instant
\* of the clock reading
ElapsedSeconds ==
    (shown.now.utc - Held(StockStatsData, shown.data, "updated").v) \div 1000

\* the freshness buckets as claimed
Bucket(e) ==
    IF e < 60 THEN <<S("Just now")>>
    ELSE IF e < 3600 THEN <<N("", e \div 60), S(" min ago")>>
    ELSE IF e < 86400
    THEN <<N("", e \div 3600),
           S(IF e \div 3600 = 1 THEN " hr ago" ELSE " hrs ago")>>
    ELSE <<N("", e \div 86400),
           S(IF e \div 86400 = 1 THEN " day ago" ELSE " days ago")>>

PerformanceLabels ==
    {"52-Week High", "52-Week Low", "52-Week Change", "YTD Change"}
FundamentalLabels == {"P/E Ratio (TTM)", "EPS (TTM)", "Beta"}
TechnicalLabels == {"50-Day MA", "200-Day MA", "Shares Outstanding"}

\* C14: the metrics of a section that metrics_display does not select are
\* not in the list: performance metrics only under all and
\* price_performance, fundamental metrics only under all and fundamentals,
\* technical metrics only under all and technical.
C14_SectionsFiltered ==
    Built =>
        LET labels == Labels(shown.built.value)
            display == shown.metrics_display
        IN  /\ display \notin {"all", "price_performance"}
                   => labels \cap PerformanceLabels = {}
            /\ display \notin {"all", "fundamentals"}
                   => labels \cap FundamentalLabels = {}
            /\ display \notin {"all", "technical"}
                   => labels \cap TechnicalLabels = {}

\* C14 witness: fundamentals on a record with every field gives the three
\* fundamental metrics and none of the other two sections
C14_Witness ==
    /\ Built
    /\ shown.metrics_display = "fundamentals"
    /\ shown.data.kind = "dict"
    /\ DOMAIN shown.data.items = Aliases(StockStatsData)
    /\ FundamentalLabels \subseteq Labels(shown.built.value)
    /\ Labels(shown.built.value)
           \cap (PerformanceLabels \cup TechnicalLabels) = {}

\* the recognised fields of the primary record with a metric of their own,
\* avg30DayVolume (the volume metric) included
RecognisedFields == FieldMetrics \cup {<<"avg30DayVolume", "Volume", {"*"}>>}

\* C15 (as stated): for a valid record (no quote fetched) the metric list
\* is as long as the number of recognised fields present in the record
\* across the sections shown: never more, never a metric for an absent
\* field.
C15_MetricCount ==
    (Succeeded /\ quote_data = NoRecord) =>
        Len(result.content) =
            Cardinality({ fm \in RecognisedFields :
                            /\ Has(StockStatsData, data, fm[1])
                            /\ Shown(fm[3]) })

\* C16 (as stated): when today's volume (vnxVolume) and avg30DayVolume are
\* both available the list has one combined volume metric whose delta is
\* today/average - 1; when only avg30DayVolume is available it has one
\* average-only metric; when avg30DayVolume is unavailable it has no
\* volume metric; no other volume metric is emitted.
C16_VolumeComparison ==
    Succeeded =>
        LET today == Held(VnxQuoteData, quote_data, "vnxVolume")
            average == Held(StockStatsData, data, "avg30DayVolume")
            volume == MetricsOf(result.content, VolumeLabels)
        IN  IF today # JNull /\ average # JNull
            THEN /\ Len(volume) = 1
                 /\ volume[1].label = "Volume (Today vs Avg)"
                 /\ average.v > 0 =>
                        volume[1].delta =
                            <<N(".4f", Ratio4(today.v - average.v, average.v))>>
            ELSE IF average # JNull
            THEN /\ Len(volume) = 1
                 /\ volume[1].label = "Avg 30-Day Volume"
            ELSE Len(volume) = 0

\* the records of a history that carry a date, in input order
Dated(response_) ==
    SelectSeq(response_, LAMBDA record : "date" \in DOMAIN record.items)

\* the value of a key in a record, null where the record lacks it
OrNull(record, key) ==
    IF key \in DOMAIN record.items THEN record.items[key] ELSE JNull

\* C17: the date axis and both series are as long as the number of dated
\* records; position i of each comes from the i-th dated record in input
\* order, null where that record lacks the average; undated records
\* contribute to none of the three.
C17_SeriesAligned ==
    shown.op = "series" =>
        LET dated == Dated(shown.response)
            series == shown.series
        IN  /\ Len(series.dates) = Len(dated)
            /\ Len(series.ma_50) = Len(dated)
            /\ Len(series.ma_200) = Len(dated)
            /\ \A i \in 1..Len(dated) :
                   /\ series.dates[i] = dated[i].items["date"]
                   /\ series.ma_50[i] = OrNull(dated[i], "day50MovingAverage")
                   /\ series.ma_200[i] = OrNull(dated[i], "day200MovingAverage")

\* C17 witness: three dated records of which the second lacks
\* day50MovingAverage: a 50-day series of length 3 with one null
C17_Witness ==
    /\ shown.op = "series"
    /\ Len(shown.response) = 3
    /\ Len(shown.series.dates) = 3
    /\ Len(shown.series.ma_50) = 3
    /\ shown.series.ma_50[1] # JNull
    /\ shown.series.ma_50[2] = JNull
    /\ shown.series.ma_50[3] # JNull

(***************************************************************************)
(* Claims about get_stock_chart, checked under SpecChart.                  *)
(***************************************************************************)
ChartEnded == chart_pc = "done"

\* the records the upstream holds that carry a date
DatedItems ==
    SelectSeq(SentRecords(history), LAMBDA item : "date" \in DOMAIN item)

\* C18 (as stated): the handler ends with HTTP 404 (not found) when the
\* historical fetch returns zero records, with HTTP 404 (insufficient
\* data) when there are records but none with a date, and with a chart
\* payload when at least one record carries a date; no 404 becomes a 500.
C18_ChartOutcomes ==
    (ChartEnded /\ SentJson(history) /\ history.body.shape = "array") =>
        IF Len(SentRecords(history)) = 0
        THEN /\ chart_result.status = 404
             /\ chart_result.detail =
                    <<"No historical data found for symbol: ", chart_symbol>>
        ELSE IF Len(DatedItems) = 0
        THEN /\ chart_result.status = 404
             /\ chart_result.detail =
                    <<"Insufficient historical data for symbol: ",
                      chart_symbol>>
        ELSE chart_result.status = 200

(***************************************************************************)
(* Claims about both handlers, checked under SpecHandlers.                 *)
(***************************************************************************)
\* a success payload, an HTTPException 404, or an HTTPException 500 with a
\* detail
OneOfThree(outcome) ==
    \/ outcome.status = 200 /\ "content" \in DOMAIN outcome
    \/ outcome.status = 404 /\ "detail" \in DOMAIN outcome
    \/ /\ outcome.status = 500
       /\ "detail" \in DOMAIN outcome
       /\ Len(outcome.detail) > 0

OutcomesClosed ==
    /\ Ended => OneOfThree(result)
    /\ ChartEnded => OneOfThree(chart_result)

\* the steps an invocation has left at most
StepsLeft(at) ==
    IF at = "primary" THEN 3
    ELSE IF at = "quote" THEN 2
    ELSE IF at \in {"format", "fetch"} THEN 1
    ELSE 0

\* an invocation under way has a next step (each fetch ends: httpx timeout
\* of 10 s, src/vianexus/dataset.py:78) ...
NeverStuck ==
    /\ pc \in {"primary", "quote", "format"} => ENABLED StatsNext
    /\ chart_pc = "fetch" => ENABLED ChartNext

\* ... and each step of it leaves fewer steps
Advances ==
    /\ (pc \notin {"idle", "done"} /\ statsVars' # statsVars)
           => StepsLeft(pc') < StepsLeft(pc)
    /\ (chart_pc = "fetch" /\ chartVars' # chartVars)
           => StepsLeft(chart_pc') < StepsLeft(chart_pc)

\* C20: every invocation of get_stock_stats and of get_stock_chart ends
\* (it always has a next step and each step brings it nearer to its end),
\* and it ends as a success payload, an HTTPException 404 or an
\* HTTPException 500 with a detail; no other exception comes out.
C20_ThreeOutcomes ==
    /\ []OutcomesClosed
    /\ []NeverStuck
    /\ [][Advances]_vars

\* C20 witness: a pydantic ValidationError raised by the primary fetch came
\* out as HTTP 500
C20_Witness ==
    /\ Ended
    /\ result.status = 500
    /\ result.detail[4] = "ValidationError"

(***************************************************************************)
(* A quote record with a null field, checked under SpecStats.              *)
(***************************************************************************)
\* the quote fields read by lines 120-172
FormattedQuoteFields ==
    {"vnxPrice", "vnxLowPrice", "vnxHighPrice", "vnxBidPrice",
     "vnxAskPrice", "vnxVolume"}

\* the upstream answered the quote request with a record in which one of
\* these fields is present and null
QuoteSentNull ==
    /\ quote # NoAnswer
    /\ Len(SentRecords(quote)) > 0
    /\ \E a \in FormattedQuoteFields :
          /\ a \in DOMAIN SentRecords(quote)[1]
          /\ SentRecords(quote)[1][a] = JNull

\* C21 (as stated): when the primary fetch returned a record and the quote
\* request is answered with a record in which a formatted field (vnxPrice,
\* vnxLowPrice, vnxVolume ...) is null, the invocation ends with HTTP 500.
C21_NullQuoteFieldIs500 ==
    (Ended /\ data # NoRecord /\ QuoteSentNull) => result.status = 500

\* C21 (amended): such a quote record is rejected by the VnxQuoteData
\* validation inside the inner guard, so it is dropped like any other
\* quote failure: the invocation ends with HTTP 200 and the list built
\* for an absent quote.
C21_NullQuoteFieldAbsorbed ==
    (Ended /\ data # NoRecord /\ QuoteSentNull) =>
        /\ vnx_quote_data(quote).exc = "ValidationError"
        /\ quote_data = NoRecord
        /\ result.status = 200
        /\ \E now \in Clock :
              result.content =
                  BuildMetrics(data, NoRecord, metrics_display, now).value

C21_Witness ==
    /\ Ended
    /\ data # NoRecord
    /\ QuoteSentNull
    /\ SentRecords(quote)[1]["vnxPrice"] = JNull
    /\ quote.status = 200
    /\ result.status = 200

(***************************************************************************)
(* The display filter and the metrics outside the three sections, checked  *)
(* under SpecFormat.                                                       *)
(***************************************************************************)
DocumentedDisplays == {"all", "price_performance", "fundamentals", "technical"}
SectionLabels == PerformanceLabels \cup FundamentalLabels \cup TechnicalLabels
\* the labels of the price-and-market metrics and of the freshness metric
FrameLabels ==
    {"Company", "Exchange"} \cup QuoteLabels \cup VolumeLabels
    \cup {"Last Updated"}

\* the list built from the same record, quote and clock reading under
\* another filter value
Rebuilt(display) ==
    BuildMetrics(shown.data, shown.quote_data, display, shown.now)

\* C22: for a fixed record, quote and instant, the price-and-market
\* metrics and the Last Updated metric are the same, in the same order,
\* under every filter value that yields a list; a filter value outside the
\* documented four is never the reason building fails, and yields exactly
\* those metrics and none of the performance, fundamentals or technical
\* sections.
C22_FilterFrame ==
    shown.op = "metrics" =>
        /\ Built =>
              /\ Labels(shown.built.value) \subseteq FrameLabels \cup SectionLabels
              /\ \A other \in Displays :
                    LET rebuilt == Rebuilt(other)
                    IN  rebuilt.exc = "none" =>
                            MetricsOf(rebuilt.value, FrameLabels)
                                = MetricsOf(shown.built.value, FrameLabels)
        /\ shown.metrics_display \notin DocumentedDisplays =>
              /\ ~Built => \A other \in Displays : Rebuilt(other).exc # "none"
              /\ Built =>
                    /\ Labels(shown.built.value) \cap SectionLabels = {}
                    /\ shown.built.value
                           = MetricsOf(shown.built.value, FrameLabels)

\* C22 witness: an undocumented filter on a complete dict record and a
\* complete dict quote gives the eight frame metrics and nothing else,
\* while filter all on the same inputs adds section metrics around them
C22_Witness ==
    /\ Built
    /\ shown.metrics_display = "summary"
    /\ shown.data.kind = "dict"
    /\ DOMAIN shown.data.items = Aliases(StockStatsData)
    /\ shown.quote_data # NoRecord
    /\ Labels(shown.built.value) =
           {"Company", "Exchange", "Current Price", "Market Cap",
            "Day's Range", "Bid / Ask", "Volume (Today vs Avg)",
            "Last Updated"}
    /\ Rebuilt("all").exc = "none"
    /\ SectionLabels \subseteq Labels(Rebuilt("all").value)
    /\ Len(Rebuilt("all").value) > Len(shown.built.value)

====
